---- MODULE Spec2Model ----
(***************************************************************************)
(* The AQI engine of aeris (src/utils/aqi.py): breakpoint lookup,          *)
(* concentration -> index interpolation, index -> category, and the        *)
(* dominant-pollutant aggregation.                                         *)
(*                                                                         *)
(* Representation.                                                         *)
(*  - A parameter key is a sequence of one-character strings, so that      *)
(*    str.lower() and str.replace() are computed character by character.   *)
(*  - A concentration is an integer number of grid units; one unit is      *)
(*    1/(10*Resolution).  Every breakpoint of the source is a multiple of  *)
(*    0.1, hence a whole number of units.                                  *)
(*  - An Optional[int] is a record [none, val].                            *)
(*  - The source interpolates in binary floating point and rounds with     *)
(*    round().  On the grid the exact value is either at least             *)
(*    1/(2*(c_high-c_low)) away from a half, where the float error cannot  *)
(*    change the rounding, or exactly a half, where the float result may   *)
(*    land just below it, on it (round() then rounds half to even) or just *)
(*    above it.  fperr is that sign; it is read only at an exact half.     *)
(***************************************************************************)
EXTENDS Integers, Sequences, FiniteSets, TLC

VARIABLES
    pc,                 \* "call" before the operation runs, "return" after it
    parameter,          \* calculate_aqi: the parameter argument
    concentration,      \* calculate_aqi: the concentration argument (units)
    fperr,              \* sign of the float error at an exact half
    aqi,                \* calculate_aqi: the returned Optional[int]
    measurements,       \* calculate_dominant_aqi: the argument, in iteration order
    all_aqis,           \* calculate_dominant_aqi: returned all_aqis
    dominant_aqi,       \* calculate_dominant_aqi: returned dominant_aqi
    dominant_parameter, \* calculate_dominant_aqi: returned dominant_parameter
    op,                 \* the operation called
    index,              \* get_aqi_category, get_aqi_description: the aqi argument
    category,           \* get_aqi_category: the returned AQICategory
    description,        \* get_aqi_description: the returned dictionary
    key,                \* get_breakpoints, format_parameter_name: the argument
    found,              \* get_breakpoints: the returned Optional[list]
    display,            \* format_parameter_name: the returned string
    air_measurements,   \* AerisDatabase: the committed rows of air_measurements
    batch,              \* insert_measurements_bulk: the measurements argument
    inserted,           \* insert_measurements_bulk: the returned count
    measurement,        \* insert_measurement: the measurement argument
    result,             \* the boolean returned by insert_measurement,
                        \* insert_city, create_alert or resolve_alert
    deleted,            \* cleanup_old_data: the returned count
    cities,             \* AerisDatabase: the committed rows of cities
    city_data,          \* insert_city: the city_data argument
    alerts,             \* AerisDatabase: the committed rows of alerts; the
                        \* id of a row is its position
    alert,              \* create_alert: the arguments
    alert_id,           \* resolve_alert: the alert_id argument
    city,               \* get_active_alerts: the city argument
    active_alerts,      \* get_active_alerts: the rows returned
    raw_data,           \* process_locations: the raw_data argument
    city_name,          \* process_locations: the city_name argument
    processed,          \* process_locations: the returned list
    response,           \* OpenAQClient: what session.get(...) does
    returned,           \* OpenAQClient: what the query method does
    requested,          \* collect_multiple_cities: the cities argument
    api_key,            \* OpenAQConfig.validate_api_key()
    remaining,          \* collect_multiple_cities: the cities still to visit
    results             \* collect_multiple_cities: the results dictionary

category_vars == <<index, category, description>>
key_vars == <<key, found, display>>
measurement_vars == <<batch, inserted, measurement, deleted>>
city_vars == <<cities, city_data>>
alert_vars == <<alerts, alert, alert_id, city, active_alerts>>
db_vars == <<air_measurements, result, measurement_vars, city_vars, alert_vars>>
process_vars == <<raw_data, city_name, processed>>
client_vars == <<response, returned>>
collect_vars == <<requested, api_key, remaining, results>>
collector_vars == <<process_vars, client_vars, collect_vars>>

\* the variables no database operation changes
engine_vars == <<pc, parameter, concentration, fperr, aqi, measurements,
                 all_aqis, dominant_aqi, dominant_parameter,
                 category_vars, key_vars>>

vars == <<pc, parameter, concentration, fperr, aqi,
          measurements, all_aqis, dominant_aqi, dominant_parameter,
          op, category_vars, key_vars, db_vars, collector_vars>>

-----------------------------------------------------------------------------
(* Bounds of the model *)

\* grid units per 0.1 of concentration
Resolution == 2
\* how far (in units) the concentrations tried reach below 0 and above a
\* table's last c_high
Margin == 30
\* the largest concentration (in units) tried with a key that has no table
UnknownKeyMax == 60
\* the largest number of entries of a measurements mapping
MaxMeasurements == 3
\* how far the indices tried reach below 0 and above 500
IndexMargin == 60
\* the largest length of the keys built from KeyAlphabet
MaxKeyLen == 4

-----------------------------------------------------------------------------
(* Values *)

NoneValue == [none |-> TRUE, val |-> 0]
IntValue(v) == [none |-> FALSE, val |-> v]

\* values of the variables of an operation that is not the one called
NoCategory == [name |-> "(not called)"]
NoDescription == [level |-> "(not called)"]
NoBreakpoints == [none |-> FALSE, table |-> <<>>]
NoDisplay == <<"(not called)">>

CategoryIdle ==
    /\ index = 0
    /\ category = NoCategory
    /\ description = NoDescription

KeyIdle ==
    /\ key = <<>>
    /\ found = NoBreakpoints
    /\ display = NoDisplay

\* the dictionary without keys
EmptyDict == [k \in {} |-> NoneValue]

\* a dictionary with the keys of ks, k holding val[k]
Dict(ks, val) == [k \in ks |-> val[k]]

\* d.get(k)
dict_get(d, k) == IF k \in DOMAIN d THEN d[k] ELSE NoneValue

MeasurementIdle ==
    /\ batch = <<>>
    /\ inserted = 0
    /\ measurement = EmptyDict
    /\ deleted = 0

CityIdle ==
    /\ cities = <<>>
    /\ city_data = EmptyDict

AlertIdle ==
    /\ alerts = <<>>
    /\ alert = EmptyDict
    /\ alert_id = 0
    /\ city = NoneValue
    /\ active_alerts = {}

ProcessIdle ==
    /\ raw_data = <<>>
    /\ city_name = NoneValue
    /\ processed = <<>>

ClientIdle ==
    /\ response = [kind |-> "(not called)"]
    /\ returned = [kind |-> "(not called)"]

CollectIdle ==
    /\ requested = <<>>
    /\ api_key = FALSE
    /\ remaining = <<>>
    /\ results = <<>>

CollectorIdle ==
    /\ ProcessIdle
    /\ ClientIdle
    /\ CollectIdle

DbIdle ==
    /\ air_measurements = <<>>
    /\ result = FALSE
    /\ MeasurementIdle
    /\ CityIdle
    /\ AlertIdle

\* whole.tenths as a number of grid units, e.g. Dec(12, 1) is 12.1
Dec(whole, tenths) == (whole * 10 + tenths) * Resolution

-----------------------------------------------------------------------------
(* class AQICategory *)

AQICategory ==
    << [name |-> "GOOD", label |-> "Good", color |-> "#00E400",
        aqi_low |-> 0, aqi_high |-> 50],
       [name |-> "MODERATE", label |-> "Moderate", color |-> "#FFFF00",
        aqi_low |-> 51, aqi_high |-> 100],
       [name |-> "UNHEALTHY_SENSITIVE", label |-> "Unhealthy for Sensitive Groups",
        color |-> "#FF7E00", aqi_low |-> 101, aqi_high |-> 150],
       [name |-> "UNHEALTHY", label |-> "Unhealthy", color |-> "#FF0000",
        aqi_low |-> 151, aqi_high |-> 200],
       [name |-> "VERY_UNHEALTHY", label |-> "Very Unhealthy", color |-> "#8F3F97",
        aqi_low |-> 201, aqi_high |-> 300],
       [name |-> "HAZARDOUS", label |-> "Hazardous", color |-> "#7E0023",
        aqi_low |-> 301, aqi_high |-> 500] >>

-----------------------------------------------------------------------------
(* Breakpoint tables: (c_low, c_high, i_low, i_high) *)

Bp(cl, ch, il, ih) == [c_low |-> cl, c_high |-> ch, i_low |-> il, i_high |-> ih]

PM25_BREAKPOINTS ==
    << Bp(Dec(0, 0),   Dec(12, 0),  0,   50),
       Bp(Dec(12, 1),  Dec(35, 4),  51,  100),
       Bp(Dec(35, 5),  Dec(55, 4),  101, 150),
       Bp(Dec(55, 5),  Dec(150, 4), 151, 200),
       Bp(Dec(150, 5), Dec(250, 4), 201, 300),
       Bp(Dec(250, 5), Dec(500, 4), 301, 500) >>

PM10_BREAKPOINTS ==
    << Bp(Dec(0, 0),   Dec(54, 0),  0,   50),
       Bp(Dec(55, 0),  Dec(154, 0), 51,  100),
       Bp(Dec(155, 0), Dec(254, 0), 101, 150),
       Bp(Dec(255, 0), Dec(354, 0), 151, 200),
       Bp(Dec(355, 0), Dec(424, 0), 201, 300),
       Bp(Dec(425, 0), Dec(604, 0), 301, 500) >>

O3_BREAKPOINTS ==
    << Bp(Dec(0, 0),   Dec(54, 0),  0,   50),
       Bp(Dec(55, 0),  Dec(70, 0),  51,  100),
       Bp(Dec(71, 0),  Dec(85, 0),  101, 150),
       Bp(Dec(86, 0),  Dec(105, 0), 151, 200),
       Bp(Dec(106, 0), Dec(200, 0), 201, 300) >>

\* mutant of CO_BREAKPOINTS: each tuple starts where the one before it ends
CO_BREAKPOINTS_shared_edges ==
    << Bp(Dec(0, 0),  Dec(4, 4),  0,   50),
       Bp(Dec(4, 4),  Dec(9, 4),  51,  100),
       Bp(Dec(9, 4),  Dec(12, 4), 101, 150),
       Bp(Dec(12, 4), Dec(15, 4), 151, 200),
       Bp(Dec(15, 4), Dec(30, 4), 201, 300),
       Bp(Dec(30, 4), Dec(50, 4), 301, 500) >>

CO_BREAKPOINTS ==
    << Bp(Dec(0, 0),  Dec(4, 4),  0,   50),
       Bp(Dec(4, 5),  Dec(9, 4),  51,  100),
       Bp(Dec(9, 5),  Dec(12, 4), 101, 150),
       Bp(Dec(12, 5), Dec(15, 4), 151, 200),
       Bp(Dec(15, 5), Dec(30, 4), 201, 300),
       Bp(Dec(30, 5), Dec(50, 4), 301, 500) >>

NO2_BREAKPOINTS ==
    << Bp(Dec(0, 0),    Dec(53, 0),   0,   50),
       Bp(Dec(54, 0),   Dec(100, 0),  51,  100),
       Bp(Dec(101, 0),  Dec(360, 0),  101, 150),
       Bp(Dec(361, 0),  Dec(649, 0),  151, 200),
       Bp(Dec(650, 0),  Dec(1249, 0), 201, 300),
       Bp(Dec(1250, 0), Dec(2049, 0), 301, 500) >>

SO2_BREAKPOINTS ==
    << Bp(Dec(0, 0),   Dec(35, 0),   0,   50),
       Bp(Dec(36, 0),  Dec(75, 0),   51,  100),
       Bp(Dec(76, 0),  Dec(185, 0),  101, 150),
       Bp(Dec(186, 0), Dec(304, 0),  151, 200),
       Bp(Dec(305, 0), Dec(604, 0),  201, 300),
       Bp(Dec(605, 0), Dec(1004, 0), 301, 500) >>

-----------------------------------------------------------------------------
(* str.lower() and str.replace(ch, "") on keys *)

UpperLetters == <<"A","B","C","D","E","F","G","H","I","J","K","L","M",
                  "N","O","P","Q","R","S","T","U","V","W","X","Y","Z">>
LowerLetters == <<"a","b","c","d","e","f","g","h","i","j","k","l","m",
                  "n","o","p","q","r","s","t","u","v","w","x","y","z">>

LowerChar(ch) ==
    IF \E i \in 1..Len(UpperLetters) : UpperLetters[i] = ch
    THEN LowerLetters[CHOOSE i \in 1..Len(UpperLetters) : UpperLetters[i] = ch]
    ELSE ch

lower(s) == [i \in 1..Len(s) |-> LowerChar(s[i])]

RECURSIVE remove(_, _)
remove(s, ch) ==
    IF s = <<>> THEN <<>>
    ELSE IF Head(s) = ch THEN remove(Tail(s), ch)
    ELSE <<Head(s)>> \o remove(Tail(s), ch)

\* mutant of normalize_key: the key not lower-cased
normalize_key_case_sensitive(p) == remove(remove(p, "."), "_")

\* mutant of normalize_key: "_" not removed
normalize_key_keeps_underscore(p) == remove(lower(p), ".")

\* parameter.lower().replace(".", "").replace("_", "")
normalize_key(p) == remove(remove(lower(p), "."), "_")

\* breakpoint_map.get(parameter_lower)
breakpoint_map_get(k) ==
    CASE k = <<"p","m","2","5">> -> PM25_BREAKPOINTS
      [] k = <<"p","m","1","0">> -> PM10_BREAKPOINTS
      [] k = <<"o","3">>         -> O3_BREAKPOINTS
      [] k = <<"c","o">>         -> CO_BREAKPOINTS
      [] k = <<"n","o","2">>     -> NO2_BREAKPOINTS
      [] k = <<"s","o","2">>     -> SO2_BREAKPOINTS
      [] OTHER                   -> <<>>

\* get_breakpoints: the table, or <<>> for None (the caller tests `not
\* breakpoints`, which an empty list and None both satisfy)
get_breakpoints(p) == breakpoint_map_get(normalize_key(p))

-----------------------------------------------------------------------------
(* calculate_aqi *)

FloatErrors == {-1, 0, 1}

\* round(num / den) for num >= 0, den > 0: to the nearest integer; an exact
\* half goes where the float error e puts it, and with no error to the even
\* neighbour (Python's round())
py_round(num, den, e) ==
    LET q == num \div den
        r == num % den
    IN  IF 2 * r < den THEN q
        ELSE IF 2 * r > den THEN q + 1
        ELSE IF e < 0 THEN q
        ELSE IF e > 0 THEN q + 1
        ELSE IF q % 2 = 0 THEN q ELSE q + 1

\* mutant of interpolate: the value truncated (int()) instead of rounded
interpolate_truncated(bp, c, e) ==
    ((bp.i_high - bp.i_low) * (c - bp.c_low)) \div (bp.c_high - bp.c_low)
        + bp.i_low

\* mutant of interpolate: the concentration not taken relative to c_low
interpolate_from_zero(bp, c, e) ==
    py_round((bp.i_high - bp.i_low) * c + bp.i_low * (bp.c_high - bp.c_low),
             bp.c_high - bp.c_low, e)

\* mutant of interpolate: the line raised to i_high instead of i_low
interpolate_above_index_high(bp, c, e) ==
    py_round((bp.i_high - bp.i_low) * (c - bp.c_low)
                 + bp.i_high * (bp.c_high - bp.c_low),
             bp.c_high - bp.c_low, e)

\* round(((i_high - i_low) / (c_high - c_low)) * (concentration - c_low) + i_low)
interpolate(bp, c, e) ==
    py_round((bp.i_high - bp.i_low) * (c - bp.c_low)
                 + bp.i_low * (bp.c_high - bp.c_low),
             bp.c_high - bp.c_low, e)

\* mutant of saturation_aqi: the last tuple's i_high instead of 500
saturation_aqi_last_index(breakpoints) == breakpoints[Len(breakpoints)].i_high

\* the value returned when the concentration exceeds all breakpoints
saturation_aqi(breakpoints) == 500

\* mutant of in_breakpoint: the upper end exclusive
in_breakpoint_half_open(bp, c) == bp.c_low <= c /\ c < bp.c_high

\* if c_low <= concentration <= c_high
in_breakpoint(bp, c) == bp.c_low <= c /\ c <= bp.c_high

\* for c_low, c_high, i_low, i_high in breakpoints: ... return 500
RECURSIVE scan_breakpoints(_, _, _, _)
scan_breakpoints(breakpoints, i, c, e) ==
    IF i > Len(breakpoints) THEN saturation_aqi(breakpoints)
    ELSE IF in_breakpoint(breakpoints[i], c)
         THEN interpolate(breakpoints[i], c, e)
         ELSE scan_breakpoints(breakpoints, i + 1, c, e)

\* mutant of calculate_aqi: no test for a negative concentration
calculate_aqi_no_negative_test(c, p, e) ==
    LET breakpoints == get_breakpoints(p)
    IN  IF breakpoints = <<>> THEN NoneValue
        ELSE IntValue(scan_breakpoints(breakpoints, 1, c, e))

calculate_aqi(c, p, e) ==
    LET breakpoints == get_breakpoints(p)
    IN  IF breakpoints = <<>> THEN NoneValue
        ELSE IF c < 0 THEN IntValue(0)
        ELSE IntValue(scan_breakpoints(breakpoints, 1, c, e))

-----------------------------------------------------------------------------
(* get_aqi_category *)

\* mutant of scan_categories: the upper end of a range exclusive
RECURSIVE scan_categories_half_open(_, _)
scan_categories_half_open(i, a) ==
    IF i > Len(AQICategory) THEN AQICategory[Len(AQICategory)]
    ELSE IF AQICategory[i].aqi_low <= a /\ a < AQICategory[i].aqi_high
         THEN AQICategory[i]
         ELSE scan_categories_half_open(i + 1, a)

\* for category in AQICategory: ... return AQICategory.HAZARDOUS
RECURSIVE scan_categories(_, _)
scan_categories(i, a) ==
    IF i > Len(AQICategory) THEN AQICategory[Len(AQICategory)]
    ELSE IF AQICategory[i].aqi_low <= a /\ a <= AQICategory[i].aqi_high
         THEN AQICategory[i]
         ELSE scan_categories(i + 1, a)

\* mutant of get_aqi_category: the least severe category when no range
\* contains the index
get_aqi_category_falls_back_to_first(a) ==
    IF \E i \in 1..Len(AQICategory) :
           AQICategory[i].aqi_low <= a /\ a <= AQICategory[i].aqi_high
    THEN scan_categories(1, a)
    ELSE AQICategory[1]

get_aqi_category(a) == scan_categories(1, a)

-----------------------------------------------------------------------------
(* get_aqi_description *)

NoInformation == "No information available"

\* mutant of health_messages_get: no entry for AQICategory.HAZARDOUS
health_messages_get_without_hazardous(c) ==
    CASE c.name = "GOOD" ->
             "Air quality is satisfactory, and air pollution poses little or no risk."
      [] c.name = "MODERATE" ->
             "Air quality is acceptable. However, there may be a risk for some people who are unusually sensitive to air pollution."
      [] c.name = "UNHEALTHY_SENSITIVE" ->
             "Members of sensitive groups may experience health effects. The general public is less likely to be affected."
      [] c.name = "UNHEALTHY" ->
             "Some members of the general public may experience health effects; members of sensitive groups may experience more serious health effects."
      [] c.name = "VERY_UNHEALTHY" ->
             "Health alert: The risk of health effects is increased for everyone."
      [] OTHER -> NoInformation

\* health_messages.get(category, "No information available")
health_messages_get(c) ==
    CASE c.name = "GOOD" ->
             "Air quality is satisfactory, and air pollution poses little or no risk."
      [] c.name = "MODERATE" ->
             "Air quality is acceptable. However, there may be a risk for some people who are unusually sensitive to air pollution."
      [] c.name = "UNHEALTHY_SENSITIVE" ->
             "Members of sensitive groups may experience health effects. The general public is less likely to be affected."
      [] c.name = "UNHEALTHY" ->
             "Some members of the general public may experience health effects; members of sensitive groups may experience more serious health effects."
      [] c.name = "VERY_UNHEALTHY" ->
             "Health alert: The risk of health effects is increased for everyone."
      [] c.name = "HAZARDOUS" ->
             "Health warning of emergency conditions: everyone is more likely to be affected."
      [] OTHER -> NoInformation

get_aqi_description(a) ==
    LET c == get_aqi_category(a)
    IN  [aqi |-> a,
         category |-> c.label,
         color |-> c.color,
         level |-> c.name,
         health_message |-> health_messages_get(c)]

-----------------------------------------------------------------------------
(* Inputs *)

Key_pm25    == <<"p","m","2","5">>
Key_pm10    == <<"p","m","1","0">>
Key_o3      == <<"o","3">>
Key_co      == <<"c","o">>
Key_no2     == <<"n","o","2">>
Key_so2     == <<"s","o","2">>
Key_PM2_5   == <<"P","M","2",".","5">>
Key_O_3     == <<"O","_","3">>
Key_Co      == <<"C","o">>
Key_invalid == <<"i","n","v","a","l","i","d","_","p","a","r","a","m">>
Key_ozone   == <<"o","z","o","n","e">>
Key_pm      == <<"p","m">>
Key_empty   == <<>>

CanonicalKeys == {Key_pm25, Key_pm10, Key_o3, Key_co, Key_no2, Key_so2}
SpelledKeys   == {Key_PM2_5, Key_O_3, Key_Co}
UnknownKeys   == {Key_invalid, Key_ozone, Key_pm, Key_empty}
Parameters    == CanonicalKeys \cup SpelledKeys \cup UnknownKeys

\* the concentrations tried with key p: from Margin below 0 to Margin above
\* the last c_high of its table
Concentrations(p) ==
    LET t == get_breakpoints(p)
    IN  (-Margin) .. ((IF t = <<>> THEN UnknownKeyMax ELSE t[Len(t)].c_high) + Margin)

-----------------------------------------------------------------------------
(* Specification of calculate_aqi: one call on inputs drawn at Init *)

NoDominantCall ==
    /\ measurements = <<>>
    /\ all_aqis = <<>>
    /\ dominant_aqi = 0
    /\ dominant_parameter = <<>>

InitAqi ==
    /\ pc = "call"
    /\ parameter \in Parameters
    /\ concentration \in Concentrations(parameter)
    /\ fperr \in FloatErrors
    /\ aqi = NoneValue
    /\ NoDominantCall
    /\ op = "calculate_aqi"
    /\ CategoryIdle
    /\ KeyIdle
    /\ DbIdle
    /\ CollectorIdle

CalculateAqi ==
    /\ pc = "call"
    /\ aqi' = calculate_aqi(concentration, parameter, fperr)
    /\ pc' = "return"
    /\ UNCHANGED <<parameter, concentration, fperr,
                   measurements, all_aqis, dominant_aqi, dominant_parameter>>
    /\ UNCHANGED <<db_vars, collector_vars, op, category_vars, key_vars>>

NextAqi == CalculateAqi

SpecAqi == InitAqi /\ [][NextAqi]_vars

-----------------------------------------------------------------------------
(* calculate_dominant_aqi *)

\* the string "unknown"
Unknown == <<"u","n","k","n","o","w","n">>

\* all_aqis[parameter] = aqi
dict_set(d, k, v) == [x \in (DOMAIN d) \cup {k} |-> IF x = k THEN v ELSE d[x]]

\* if aqi > dominant_aqi:
exceeds_dominant(a, dominant) == a > dominant

\* mutant of dominant_step: all_aqis written only for a new dominant
dominant_step_records_dominant_only(st, item, e) ==
    LET a == calculate_aqi(item.concentration, item.parameter, e)
    IN  IF a.none \/ ~exceeds_dominant(a.val, st.dominant_aqi) THEN st
        ELSE [all_aqis |-> dict_set(st.all_aqis, item.parameter, a.val),
              dominant_aqi |-> a.val,
              dominant_parameter |-> item.parameter]

\* the body of the loop for one (parameter, concentration) item; st holds the
\* three locals all_aqis, dominant_aqi, dominant_parameter
dominant_step(st, item, e) ==
    LET a == calculate_aqi(item.concentration, item.parameter, e)
    IN  IF a.none THEN st
        ELSE [all_aqis |-> dict_set(st.all_aqis, item.parameter, a.val),
              dominant_aqi |->
                  IF exceeds_dominant(a.val, st.dominant_aqi)
                  THEN a.val ELSE st.dominant_aqi,
              dominant_parameter |->
                  IF exceeds_dominant(a.val, st.dominant_aqi)
                  THEN item.parameter ELSE st.dominant_parameter]

\* for parameter, concentration in measurements.items(): ...
RECURSIVE dominant_loop(_, _, _, _)
dominant_loop(ms, i, st, e) ==
    IF i > Len(ms) THEN st
    ELSE dominant_loop(ms, i + 1, dominant_step(st, ms[i], e), e)

\* mutant of calculate_dominant_aqi: dominant_parameter starts as the first
\* key of the mapping instead of "unknown"
calculate_dominant_aqi_starts_at_first_key(ms, e) ==
    dominant_loop(ms, 1,
                  [all_aqis |-> <<>>, dominant_aqi |-> 0,
                   dominant_parameter |->
                       IF ms = <<>> THEN Unknown ELSE ms[1].parameter],
                  e)

calculate_dominant_aqi(ms, e) ==
    dominant_loop(ms, 1,
                  [all_aqis |-> <<>>, dominant_aqi |-> 0,
                   dominant_parameter |-> Unknown],
                  e)

-----------------------------------------------------------------------------
(* Specification of calculate_dominant_aqi: one call on a mapping drawn at  *)
(* Init.  A mapping is the sequence of its items in iteration order, with   *)
(* pairwise distinct keys.                                                  *)

DominantKeys == {Key_pm25, Key_pm10, Key_PM2_5, Key_invalid}

\* -1.0, 0, 5.4 (an exact half for pm25), the first grid point above 12.0,
\* 35.5 and 155.0
DominantConcentrations ==
    {-Dec(1, 0), Dec(0, 0), Dec(5, 4), Dec(12, 0) + 1, Dec(35, 5), Dec(155, 0)}

Items == [parameter : DominantKeys, concentration : DominantConcentrations]

HasKey(m, k) == \E i \in 1..Len(m) : m[i].parameter = k

RECURSIVE Mappings(_)
Mappings(n) ==
    IF n = 0 THEN {<<>>}
    ELSE LET shorter == Mappings(n - 1)
         IN  shorter \cup
             UNION {{Append(m, it) : it \in {x \in Items : ~HasKey(m, x.parameter)}} :
                    m \in {x \in shorter : Len(x) = n - 1}}

NoAqiCall ==
    /\ parameter = <<>>
    /\ concentration = 0
    /\ aqi = NoneValue

InitDominant ==
    /\ pc = "call"
    /\ measurements \in Mappings(MaxMeasurements)
    /\ fperr \in FloatErrors
    /\ all_aqis = <<>>
    /\ dominant_aqi = 0
    /\ dominant_parameter = Unknown
    /\ NoAqiCall
    /\ op = "calculate_dominant_aqi"
    /\ CategoryIdle
    /\ KeyIdle
    /\ DbIdle
    /\ CollectorIdle

CalculateDominantAqi ==
    /\ pc = "call"
    /\ \E r \in {calculate_dominant_aqi(measurements, fperr)} :
           /\ all_aqis' = r.all_aqis
           /\ dominant_aqi' = r.dominant_aqi
           /\ dominant_parameter' = r.dominant_parameter
    /\ pc' = "return"
    /\ UNCHANGED <<parameter, concentration, fperr, aqi, measurements>>
    /\ UNCHANGED <<db_vars, collector_vars, op, category_vars, key_vars>>

NextDominant == CalculateDominantAqi

SpecDominant == InitDominant /\ [][NextDominant]_vars

-----------------------------------------------------------------------------
(* format_parameter_name *)

\* the characters U+2083 and U+2082 (subscript three and two)
Sub3 == "<subscript 3>"
Sub2 == "<subscript 2>"

UpperChar(ch) ==
    IF \E i \in 1..Len(LowerLetters) : LowerLetters[i] = ch
    THEN UpperLetters[CHOOSE i \in 1..Len(LowerLetters) : LowerLetters[i] = ch]
    ELSE ch

upper(s) == [i \in 1..Len(s) |-> UpperChar(s[i])]

\* format_map.get(k, default)
format_map_get(k, default) ==
    CASE k = <<"p","m","2","5">>     -> <<"P","M","2",".","5">>
      [] k = <<"p","m","2",".","5">> -> <<"P","M","2",".","5">>
      [] k = <<"p","m","1","0">>     -> <<"P","M","1","0">>
      [] k = <<"o","3">>             -> <<"O", Sub3>>
      [] k = <<"o","z","o","n","e">> -> <<"O", Sub3>>
      [] k = <<"c","o">>             -> <<"C","O">>
      [] k = <<"n","o","2">>         -> <<"N","O", Sub2>>
      [] k = <<"s","o","2">>         -> <<"S","O", Sub2>>
      [] OTHER                       -> default

\* mutant of format_parameter_name: the key looked up as given
format_parameter_name_case_sensitive(p) == format_map_get(p, upper(p))

format_parameter_name(p) == format_map_get(lower(p), upper(p))

-----------------------------------------------------------------------------
(* Specification of get_breakpoints and format_parameter_name: one call on  *)
(* a key drawn at Init                                                      *)

Key_pm2_5   == <<"p","m","2",".","5">>
Key_PM25    == <<"P","M","2","5">>
Key_Pm25    == <<"P","m","2","5">>
Key_P_M_1_0 == <<"P",".","M","_","1",".","0">>
Key_NO2     == <<"N","O","2">>
Key_so_2    == <<"s","o","_","2">>
Key_OZONE   == <<"O","Z","O","N","E">>
Key_xyz     == <<"x","y","z">>
Key_unknown == <<"u","n","k","n","o","w","n">>

MoreKeys == {Key_pm2_5, Key_PM25, Key_Pm25, Key_P_M_1_0, Key_NO2, Key_so_2,
             Key_OZONE, Key_xyz, Key_unknown}

KeyAlphabet == {"c", "C", "o", "O", "3", ".", "_"}

\* the keys of length n over KeyAlphabet
RECURSIVE Words(_)
Words(n) ==
    IF n = 0 THEN {<<>>}
    ELSE {Append(w, ch) : w \in Words(n - 1), ch \in KeyAlphabet}

Keys == Parameters \cup MoreKeys \cup UNION {Words(n) : n \in 0..MaxKeyLen}

InitKeys ==
    /\ pc = "call"
    /\ op \in {"get_breakpoints", "format_parameter_name"}
    /\ key \in Keys
    /\ found = NoBreakpoints
    /\ display = NoDisplay
    /\ fperr = 0
    /\ NoAqiCall
    /\ NoDominantCall
    /\ CategoryIdle
    /\ DbIdle
    /\ CollectorIdle

GetBreakpoints ==
    /\ pc = "call"
    /\ op = "get_breakpoints"
    /\ found' = [none |-> get_breakpoints(key) = <<>>,
                 table |-> get_breakpoints(key)]
    /\ pc' = "return"
    /\ UNCHANGED <<parameter, concentration, fperr, aqi, measurements,
                   all_aqis, dominant_aqi, dominant_parameter>>
    /\ UNCHANGED <<db_vars, collector_vars, op, category_vars, key, display>>

FormatParameterName ==
    /\ pc = "call"
    /\ op = "format_parameter_name"
    /\ display' = format_parameter_name(key)
    /\ pc' = "return"
    /\ UNCHANGED <<parameter, concentration, fperr, aqi, measurements,
                   all_aqis, dominant_aqi, dominant_parameter>>
    /\ UNCHANGED <<db_vars, collector_vars, op, category_vars, key, found>>

NextKeys == GetBreakpoints \/ FormatParameterName

SpecKeys == InitKeys /\ [][NextKeys]_vars

-----------------------------------------------------------------------------
(* Specification of get_aqi_category and get_aqi_description: one call on   *)
(* an index drawn at Init                                                   *)

Indices == (-IndexMargin) .. (500 + IndexMargin)

InitCategory ==
    /\ pc = "call"
    /\ op \in {"get_aqi_category", "get_aqi_description"}
    /\ index \in Indices
    /\ category = NoCategory
    /\ description = NoDescription
    /\ fperr = 0
    /\ NoAqiCall
    /\ NoDominantCall
    /\ KeyIdle
    /\ DbIdle
    /\ CollectorIdle

GetAqiCategory ==
    /\ pc = "call"
    /\ op = "get_aqi_category"
    /\ category' = get_aqi_category(index)
    /\ pc' = "return"
    /\ UNCHANGED <<parameter, concentration, fperr, aqi, measurements,
                   all_aqis, dominant_aqi, dominant_parameter>>
    /\ UNCHANGED <<db_vars, collector_vars, op, index, description, key_vars>>

GetAqiDescription ==
    /\ pc = "call"
    /\ op = "get_aqi_description"
    /\ description' = get_aqi_description(index)
    /\ pc' = "return"
    /\ UNCHANGED <<parameter, concentration, fperr, aqi, measurements,
                   all_aqis, dominant_aqi, dominant_parameter>>
    /\ UNCHANGED <<db_vars, collector_vars, op, index, category, key_vars>>

NextCategory == GetAqiCategory \/ GetAqiDescription

SpecCategory == InitCategory /\ [][NextCategory]_vars

-----------------------------------------------------------------------------
(* AerisDatabase.insert_measurements_bulk (src/database/database.py)        *)
(*                                                                         *)
(* A measurement is a dictionary: a function from the keys it holds to      *)
(* Optional values.  A row of air_measurements is a record of its NOT NULL  *)
(* columns; the nullable columns are filled with measurement.get(...) and   *)
(* never make the insert fail, they are left out.  air_measurements is the  *)
(* committed content of the table, in order of insertion.                   *)

\* the largest number of measurements of a batch
MaxBatch == 2
\* the largest number of rows of air_measurements
MaxRows == 3

\* the keys read with measurement[...], in the order of the VALUES tuple
RequiredKeys == <<"location_id", "city", "timestamp", "parameter", "value", "unit">>

\* building the VALUES tuple raises KeyError
raises_KeyError(m) ==
    \E i \in 1..Len(RequiredKeys) : RequiredKeys[i] \notin DOMAIN m

\* cursor.execute raises sqlite3.IntegrityError: NOT NULL constraint failed
raises_IntegrityError(m) ==
    \E i \in 1..Len(RequiredKeys) : m[RequiredKeys[i]].none

\* the row the INSERT statement adds
inserted_row(m) ==
    [location_id |-> m["location_id"].val,
     city_name   |-> m["city"].val,
     timestamp   |-> m["timestamp"].val,
     parameter   |-> m["parameter"].val,
     value       |-> m["value"].val,
     unit        |-> m["unit"].val]

\* leaving get_connection without conn.commit(): conn.close() discards the
\* rows inserted on the connection
closed_without_commit(pending) == <<>>

\* the for loop from the i-th measurement on; pending are the rows inserted
\* on the connection so far, n is the local variable inserted.  Returns the
\* rows committed and the number returned.
RECURSIVE bulk_loop(_, _, _, _)
bulk_loop(ms, i, pending, n) ==
    IF i > Len(ms)
    THEN \* conn.commit(); return inserted
         [committed |-> pending, inserted |-> n]
    ELSE IF raises_KeyError(ms[i])
    THEN \* not caught in the loop; except Exception: return inserted
         [committed |-> closed_without_commit(pending), inserted |-> n]
    ELSE IF raises_IntegrityError(ms[i])
    THEN \* except sqlite3.IntegrityError: continue
         bulk_loop(ms, i + 1, pending, n)
    ELSE bulk_loop(ms, i + 1, Append(pending, inserted_row(ms[i])), n + 1)

insert_measurements_bulk(ms) ==
    IF ms = <<>>
    THEN [committed |-> <<>>, inserted |-> 0]
    ELSE bulk_loop(ms, 1, <<>>, 0)

\* insert_measurement: the rows committed and the boolean returned
insert_measurement(m) ==
    IF raises_KeyError(m)
    THEN \* except Exception: return False
         [committed |-> <<>>, result |-> FALSE]
    ELSE IF raises_IntegrityError(m)
    THEN \* except sqlite3.IntegrityError: return False
         [committed |-> <<>>, result |-> FALSE]
    ELSE \* conn.commit(); return True
         [committed |-> <<inserted_row(m)>>, result |-> TRUE]

(* Inputs *)

LocationIds == {"loc-1", "loc-2"}

CompleteMeasurements ==
    {[location_id |-> IntValue(l),
      city        |-> IntValue("Lisbon"),
      timestamp   |-> IntValue(1),
      parameter   |-> IntValue("pm25"),
      value       |-> v,
      unit        |-> IntValue("ug/m3")] :
        l \in LocationIds, v \in {IntValue(10), NoneValue}}

\* the dictionary m without the key k
Without(m, k) == [x \in DOMAIN m \ {k} |-> m[x]]

BatchMeasurements ==
    CompleteMeasurements
        \cup {Without(m, "value") : m \in CompleteMeasurements}
        \cup {Without(m, "location_id") : m \in CompleteMeasurements}

Batches == UNION {[1..n -> BatchMeasurements] : n \in 0..MaxBatch}

\* timestamps, as numbers of days
Timestamps == {1, 2}

SingleMeasurements ==
    BatchMeasurements
        \cup {[m EXCEPT !["timestamp"] = IntValue(t)] :
                 m \in CompleteMeasurements, t \in Timestamps}

(* The argument and result variables of the database hold the frame of    *)
(* the last call: a call sets its own and clears those of the other        *)
(* operations.                                                              *)

NoBulkFrame == batch' = <<>> /\ inserted' = 0
NoInsertFrame == measurement' = EmptyDict
NoCleanupFrame == deleted' = 0
NoCityFrame == city_data' = EmptyDict
NoCreateFrame == alert' = EmptyDict
NoResolveFrame == alert_id' = 0
NoGetFrame == city' = NoneValue /\ active_alerts' = {}

(* Specification of air_measurements: the table is created empty, then     *)
(* insert_measurements_bulk and insert_measurement are called any number    *)
(* of times                                                                 *)

InitDb ==
    /\ pc = "return"
    /\ op = "__init__"
    /\ DbIdle
    /\ CollectorIdle
    /\ fperr = 0
    /\ NoAqiCall
    /\ NoDominantCall
    /\ CategoryIdle
    /\ KeyIdle

InsertMeasurementsBulk ==
    /\ \E ms \in Batches :
           /\ Len(air_measurements) + Len(ms) <= MaxRows
           /\ batch' = ms
           /\ \E r \in {insert_measurements_bulk(ms)} :
                  /\ air_measurements' = air_measurements \o r.committed
                  /\ inserted' = r.inserted
    /\ op' = "insert_measurements_bulk"
    /\ result' = FALSE
    /\ NoInsertFrame /\ NoCleanupFrame /\ NoCityFrame
    /\ NoCreateFrame /\ NoResolveFrame /\ NoGetFrame
    /\ UNCHANGED <<cities, alerts>>
    /\ UNCHANGED <<engine_vars, collector_vars>>

InsertMeasurement ==
    /\ Len(air_measurements) < MaxRows
    /\ \E m \in SingleMeasurements :
           /\ measurement' = m
           /\ air_measurements' = air_measurements \o insert_measurement(m).committed
           /\ result' = insert_measurement(m).result
    /\ op' = "insert_measurement"
    /\ NoBulkFrame /\ NoCleanupFrame /\ NoCityFrame
    /\ NoCreateFrame /\ NoResolveFrame /\ NoGetFrame
    /\ UNCHANGED <<cities, alerts>>
    /\ UNCHANGED <<engine_vars, collector_vars>>

NextDb == InsertMeasurementsBulk \/ InsertMeasurement

SpecDb == InitDb /\ [][NextDb]_vars

-----------------------------------------------------------------------------
(* AerisDatabase.insert_city (src/database/database.py)                     *)
(*                                                                         *)
(* A row of cities is a record of location_id, city_name and station_name;  *)
(* the other columns are filled like station_name, with city_data.get(...), *)
(* and are left out.  cities is the committed content of the table in the   *)
(* order of the row ids.                                                    *)

\* building the VALUES tuple raises KeyError: except Exception: return False
city_raises_KeyError(cd) == "location_id" \notin DOMAIN cd \/ "city" \notin DOMAIN cd

\* NOT NULL constraint failed: cities.location_id or cities.city_name have
\* no default value for OR REPLACE to fall back on
city_raises_IntegrityError(cd) == cd["location_id"].none \/ cd["city"].none

city_row(cd) ==
    [location_id  |-> cd["location_id"].val,
     city_name    |-> cd["city"].val,
     station_name |-> dict_get(cd, "station_name")]

\* mutant of insert_or_replace: a plain INSERT
insert_or_replace_appends(table, row) == Append(table, row)

\* INSERT OR REPLACE with location_id UNIQUE: the row holding the
\* location_id is deleted, the new row is added
insert_or_replace(table, row) ==
    Append(SelectSeq(table, LAMBDA r : r.location_id # row.location_id), row)

\* insert_city: the table after the call and the boolean returned
insert_city(table, cd) ==
    IF city_raises_KeyError(cd) THEN [cities |-> table, result |-> FALSE]
    ELSE IF city_raises_IntegrityError(cd) THEN [cities |-> table, result |-> FALSE]
    ELSE [cities |-> insert_or_replace(table, city_row(cd)), result |-> TRUE]

(* Inputs *)

CityDataValues ==
    [location_id  : {NoneValue} \cup {IntValue(l) : l \in LocationIds},
     city         : {NoneValue, IntValue("Lisbon"), IntValue("Porto")},
     station_name : {IntValue("Station A")}]

CityData ==
    UNION {{Dict(ks, val) : val \in CityDataValues} :
           ks \in SUBSET {"location_id", "city", "station_name"}}

(* Specification of cities: the table is created empty, then insert_city    *)
(* is called any number of times                                            *)

InitCities ==
    /\ pc = "return"
    /\ op = "__init__"
    /\ DbIdle
    /\ CollectorIdle
    /\ fperr = 0
    /\ NoAqiCall
    /\ NoDominantCall
    /\ CategoryIdle
    /\ KeyIdle

InsertCity ==
    /\ \E cd \in CityData :
           /\ city_data' = cd
           /\ cities' = insert_city(cities, cd).cities
           /\ result' = insert_city(cities, cd).result
    /\ op' = "insert_city"
    /\ NoBulkFrame /\ NoInsertFrame /\ NoCleanupFrame
    /\ NoCreateFrame /\ NoResolveFrame /\ NoGetFrame
    /\ UNCHANGED <<air_measurements, alerts>>
    /\ UNCHANGED <<engine_vars, collector_vars>>

NextCities == InsertCity

SpecCities == InitCities /\ [][NextCities]_vars

-----------------------------------------------------------------------------
(* AerisDatabase: create_alert, get_active_alerts, resolve_alert and       *)
(* cleanup_old_data (src/database/database.py)                              *)
(*                                                                         *)
(* A row of alerts is a record of city_name and is_active; its id is its    *)
(* position in alerts, since ids are given in increasing order and no row   *)
(* is ever deleted.  The arguments of create_alert are a record of city     *)
(* and value; alert_level, parameter, threshold and message are given and   *)
(* left out.  get_active_alerts returns its rows ordered by created_at,     *)
(* which does not order rows created within one second: the rows returned   *)
(* are a set.                                                               *)

\* the largest number of rows of alerts
MaxAlerts == 2
\* the largest number of rows of air_measurements while alerts are handled
MaxKept == 1

\* NOT NULL constraint failed: except Exception: return False
alert_raises_IntegrityError(a) == a.city.none \/ a.value.none

\* create_alert: the table after the call and the boolean returned
create_alert(table, a) ==
    IF alert_raises_IntegrityError(a)
    THEN [alerts |-> table, result |-> FALSE]
    ELSE [alerts |-> Append(table, [city_name |-> a.city.val, is_active |-> 1]),
          result |-> TRUE]

\* if city:
city_given(c) == ~c.none /\ c.val # ""

\* the row with id i as get_active_alerts returns it
alert_dict(table, i) ==
    [id |-> i, city_name |-> table[i].city_name, is_active |-> table[i].is_active]

get_active_alerts(table, c) ==
    {alert_dict(table, i) :
        i \in {j \in 1..Len(table) :
                  /\ table[j].is_active = 1
                  /\ city_given(c) => table[j].city_name = c.val}}

\* mutant of resolve_alert: UPDATE without WHERE id = ?
resolve_alert_resolves_all(table, id) ==
    [i \in 1..Len(table) |-> [table[i] EXCEPT !.is_active = 0]]

\* UPDATE alerts SET is_active = 0 ... WHERE id = ?
resolve_alert(table, id) ==
    [i \in 1..Len(table) |->
        IF i = id THEN [table[i] EXCEPT !.is_active = 0] ELSE table[i]]

\* DELETE FROM air_measurements WHERE timestamp < ?
cleanup_old_data(table, cutoff) ==
    [air_measurements |-> SelectSeq(table, LAMBDA r : ~(r.timestamp < cutoff)),
     deleted |-> Cardinality({i \in 1..Len(table) : table[i].timestamp < cutoff})]

(* Inputs *)

AlertCities == {NoneValue, IntValue(""), IntValue("Rio"), IntValue("SP")}

AlertArguments == [city : AlertCities, value : {NoneValue, IntValue(80)}]

AlertIds == 1..(MaxAlerts + 1)

\* utcnow() - timedelta(days), as a number of days
Cutoffs == {1, 2, 3}

(* Specification of alerts: the tables are created empty, then the alert    *)
(* operations, insert_measurement and cleanup_old_data are called any       *)
(* number of times                                                          *)

InitAlerts ==
    /\ pc = "return"
    /\ op = "__init__"
    /\ DbIdle
    /\ CollectorIdle
    /\ fperr = 0
    /\ NoAqiCall
    /\ NoDominantCall
    /\ CategoryIdle
    /\ KeyIdle

CreateAlert ==
    /\ Len(alerts) < MaxAlerts
    /\ \E a \in AlertArguments :
           /\ alert' = a
           /\ alerts' = create_alert(alerts, a).alerts
           /\ result' = create_alert(alerts, a).result
    /\ op' = "create_alert"
    /\ NoBulkFrame /\ NoInsertFrame /\ NoCleanupFrame /\ NoCityFrame
    /\ NoResolveFrame /\ NoGetFrame
    /\ UNCHANGED <<air_measurements, cities>>
    /\ UNCHANGED <<engine_vars, collector_vars>>

GetActiveAlerts ==
    /\ \E c \in AlertCities :
           /\ city' = c
           /\ active_alerts' = get_active_alerts(alerts, c)
    /\ op' = "get_active_alerts"
    /\ result' = FALSE
    /\ NoBulkFrame /\ NoInsertFrame /\ NoCleanupFrame /\ NoCityFrame
    /\ NoCreateFrame /\ NoResolveFrame
    /\ UNCHANGED <<air_measurements, cities, alerts>>
    /\ UNCHANGED <<engine_vars, collector_vars>>

ResolveAlert ==
    /\ \E id \in AlertIds :
           /\ alert_id' = id
           /\ alerts' = resolve_alert(alerts, id)
    /\ result' = TRUE
    /\ op' = "resolve_alert"
    /\ NoBulkFrame /\ NoInsertFrame /\ NoCleanupFrame /\ NoCityFrame
    /\ NoCreateFrame /\ NoGetFrame
    /\ UNCHANGED <<air_measurements, cities>>
    /\ UNCHANGED <<engine_vars, collector_vars>>

CleanupOldData ==
    /\ \E cutoff \in Cutoffs :
           /\ air_measurements' = cleanup_old_data(air_measurements, cutoff).air_measurements
           /\ deleted' = cleanup_old_data(air_measurements, cutoff).deleted
    /\ op' = "cleanup_old_data"
    /\ result' = FALSE
    /\ NoBulkFrame /\ NoInsertFrame /\ NoCityFrame
    /\ NoCreateFrame /\ NoResolveFrame /\ NoGetFrame
    /\ UNCHANGED <<cities, alerts>>
    /\ UNCHANGED <<engine_vars, collector_vars>>

\* insert_measurement while at most MaxKept rows are kept
InsertKeptMeasurement ==
    /\ Len(air_measurements) < MaxKept
    /\ InsertMeasurement

NextAlerts ==
    \/ CreateAlert
    \/ GetActiveAlerts
    \/ ResolveAlert
    \/ CleanupOldData
    \/ InsertKeptMeasurement

SpecAlerts == InitAlerts /\ [][NextAlerts]_vars

-----------------------------------------------------------------------------
(* DataProcessor.process_locations (src/data/data_collector.py)             *)
(*                                                                         *)
(* A raw item is a dictionary from the keys it holds to Optional values:    *)
(* "id" holds an integer, "name" and "locality" a string (a sequence of     *)
(* characters), "country" the code of a {"code": ...} dictionary.  The      *)
(* coordinates, the parameters and created_at of a processed item are left  *)
(* out: they are copied or computed from keys the validation does not read. *)

\* the largest number of items of raw_data
MaxRaw == 2

\* bool(v) of an Optional string
truthy(v) == ~v.none /\ v.val # <<>>

\* a or b
py_or(a, b) == IF truthy(a) THEN a ELSE b

Digits == <<"0","1","2","3","4","5","6","7","8","9">>

\* str(n) of an integer n >= 0
RECURSIVE str_int(_)
str_int(n) ==
    IF n < 10 THEN <<Digits[n + 1]>>
    ELSE str_int(n \div 10) \o <<Digits[(n % 10) + 1]>>

\* str(v) of an Optional integer
str(v) == IF v.none THEN <<"N","o","n","e">> ELSE str_int(v.val)

\* sub in s
contains(s, sub) ==
    \E i \in 0..(Len(s) - Len(sub)) : SubSeq(s, i + 1, i + Len(sub)) = sub

UnknownCity == <<"U","n","k","n","o","w","n">>
DefaultCountry == <<"B","R">>

\* locality = item.get("locality") or item.get("name")
locality_of(item) == py_or(dict_get(item, "locality"), dict_get(item, "name"))

\* if city_name and locality and city_name.lower() not in locality.lower()
filtered_out(item, cn) ==
    /\ truthy(cn)
    /\ truthy(locality_of(item))
    /\ ~contains(lower(locality_of(item).val), lower(cn.val))

\* item.get("country", {}).get("code", "BR") raises AttributeError
country_raises(item) == "country" \in DOMAIN item /\ item["country"].none

processed_item(item) ==
    [location_id  |-> str(dict_get(item, "id")),
     city         |-> IF truthy(locality_of(item))
                      THEN locality_of(item).val ELSE UnknownCity,
     country      |-> IF "country" \in DOMAIN item
                      THEN item["country"].val ELSE DefaultCountry,
     station_name |-> dict_get(item, "name"),
     is_active    |-> TRUE]

\* if processed_item["location_id"] and processed_item["station_name"]
has_required_fields(pi) == pi.location_id # <<>> /\ truthy(pi.station_name)

RECURSIVE process_locations(_, _)
process_locations(raw, cn) ==
    IF raw = <<>> THEN <<>>
    ELSE LET item == Head(raw)
             rest == process_locations(Tail(raw), cn)
         IN  IF filtered_out(item, cn) THEN rest
             ELSE IF country_raises(item) THEN rest
             ELSE IF has_required_fields(processed_item(item))
                  THEN <<processed_item(item)>> \o rest
                  ELSE rest

(* Inputs *)

Name_Rio == <<"R","i","o">>
Name_SP == <<"S","P">>
Name_rio == <<"r","i","o">>

RawValues ==
    [id       |-> {NoneValue, IntValue(0), IntValue(7)},
     name     |-> {NoneValue, IntValue(<<>>), IntValue(Name_Rio)},
     locality |-> {IntValue(Name_SP)},
     country  |-> {NoneValue, IntValue(<<"A","R">>)}]

RawKeys == {"id", "name", "locality", "country"}

RawItems ==
    UNION {{Dict(ks, val) : val \in [id : RawValues.id, name : RawValues.name,
                                     locality : RawValues.locality,
                                     country : RawValues.country]} :
           ks \in SUBSET RawKeys}

RawData == UNION {[1..n -> RawItems] : n \in 0..MaxRaw}

CityNames == {NoneValue, IntValue(<<>>), IntValue(Name_rio)}

(* Specification of process_locations: one call on inputs drawn at Init *)

InitProcess ==
    /\ pc = "call"
    /\ op = "process_locations"
    /\ raw_data \in RawData
    /\ city_name \in CityNames
    /\ processed = <<>>
    /\ ClientIdle
    /\ CollectIdle
    /\ DbIdle
    /\ fperr = 0
    /\ NoAqiCall
    /\ NoDominantCall
    /\ CategoryIdle
    /\ KeyIdle

ProcessLocations ==
    /\ pc = "call"
    /\ processed' = process_locations(raw_data, city_name)
    /\ pc' = "return"
    /\ UNCHANGED <<raw_data, city_name, client_vars, collect_vars>>
    /\ UNCHANGED <<db_vars, op, parameter, concentration, fperr, aqi,
                   measurements, all_aqis, dominant_aqi, dominant_parameter,
                   category_vars, key_vars>>

NextProcess == ProcessLocations

SpecProcess == InitProcess /\ [][NextProcess]_vars

-----------------------------------------------------------------------------
(* OpenAQClient (src/data/data_collector.py)                                *)
(*                                                                         *)
(* response is what session.get(...) does: it raises an exception of the    *)
(* named kind or returns a response with a status code and a body.  A body  *)
(* is text that is not JSON or a JSON value; a JSON value is a record       *)
(* [type, keys, items, text, results]: keys of a dict, items of a list,     *)
(* text of a string, results the value under "results" of a dict.  A value  *)
(* a method returns is a record [type, len].                                *)

PyNone == [type |-> "NoneType", len |-> 0]
PyList(n) == [type |-> "list", len |-> n]
PyInt == [type |-> "int", len |-> 0]

Str_results == <<"r","e","s","u","l","t","s">>

NotJson == [type |-> "(not JSON)", keys |-> {}, items |-> {}, text |-> <<>>, results |-> PyNone]
JsonNull == [type |-> "NoneType", keys |-> {}, items |-> {}, text |-> <<>>, results |-> PyNone]
JsonInt == [type |-> "int", keys |-> {}, items |-> {}, text |-> <<>>, results |-> PyNone]
JsonStr(t) == [type |-> "str", keys |-> {}, items |-> {}, text |-> t, results |-> PyNone]
JsonList(xs) == [type |-> "list", keys |-> {}, items |-> xs, text |-> <<>>, results |-> PyNone]
JsonDict(ks, r) == [type |-> "dict", keys |-> ks, items |-> {}, text |-> <<>>, results |-> r]

\* outcomes of a call: an exception or a value
Raise(exc) == [raised |-> TRUE, exc |-> exc, value |-> PyNone, data |-> JsonNull]
Return(v) == [raised |-> FALSE, exc |-> "", value |-> v, data |-> JsonNull]
ReturnData(d) == [raised |-> FALSE, exc |-> "", value |-> PyNone, data |-> d]

\* response.raise_for_status() raises HTTPError
is_error_status(status) == 400 <= status /\ status < 600

\* "results" in data raises TypeError
in_raises(data) == data.type \in {"NoneType", "int"}

\* "results" in data
results_in(data) ==
    CASE data.type = "dict" -> "results" \in data.keys
      [] data.type = "list" -> Str_results \in data.items
      [] data.type = "str"  -> contains(data.text, Str_results)
      [] OTHER -> FALSE

\* bool(data)
data_truthy(data) ==
    CASE data.type = "dict" -> data.keys # {}
      [] data.type = "list" -> data.items # {}
      [] data.type = "str"  -> data.text # <<>>
      [] OTHER -> FALSE

\* _make_request: every except clause logs and raises again
make_request(r) ==
    IF r.kind # "response" THEN Raise(r.kind)
    ELSE IF is_error_status(r.status) THEN Raise("HTTPError")
    ELSE IF r.body.type = "(not JSON)" THEN Raise("JSONDecodeError")
    ELSE IF in_raises(r.body) THEN Raise("TypeError")
    ELSE ReturnData(r.body)

\* what the method returns when it has no data: [] or, for
\* get_location_latest, None
no_data(method) == IF method = "get_location_latest" THEN PyNone ELSE PyList(0)

\* the methods that format len(results) into their log message
logs_len(method) == method # "get_location_latest"

\* mutant of query: without the except Exception clause
query_propagates(method, r) ==
    LET q == make_request(r)
    IN  IF q.raised THEN q
        ELSE IF ~data_truthy(q.data) \/ ~results_in(q.data)
        THEN Return(no_data(method))
        ELSE IF q.data.type # "dict" THEN Raise("TypeError")
        ELSE IF logs_len(method) /\ q.data.results.type # "list"
        THEN Raise("TypeError")
        ELSE Return(q.data.results)

\* the body shared by get_locations_by_country,
\* get_locations_by_coordinates, get_location_latest and
\* get_sensor_measurements
query(method, r) ==
    LET q == make_request(r)
    IN  IF q.raised
        THEN \* except Exception
             Return(no_data(method))
        ELSE IF ~data_truthy(q.data) \/ ~results_in(q.data)
        THEN Return(no_data(method))
        ELSE IF q.data.type # "dict"
        THEN \* response["results"] raises TypeError; except Exception
             Return(no_data(method))
        ELSE IF logs_len(method) /\ q.data.results.type # "list"
        THEN \* len(results) raises TypeError; except Exception
             Return(no_data(method))
        ELSE Return(q.data.results)

(* Inputs *)

QueryMethods == {"get_locations_by_country", "get_locations_by_coordinates",
                 "get_location_latest", "get_sensor_measurements"}

RequestExceptions == {"Timeout", "ConnectionError", "RetryError"}

StatusCodes == {200, 401, 404, 429, 500}

ResultsValues == {PyNone, PyInt, PyList(0), PyList(2)}

Bodies ==
    {NotJson, JsonNull, JsonInt, JsonStr(<<>>), JsonStr(Str_results),
     JsonList({}), JsonList({Str_results})}
        \cup {JsonDict(ks, PyNone) : ks \in {{}, {"meta"}, {"detail"}}}
        \cup {JsonDict(ks, v) : ks \in {{"results"}, {"meta", "results"}},
                                v \in ResultsValues}

NoBody == NotJson

Responses ==
    {[kind |-> k, status |-> 0, body |-> NoBody] : k \in RequestExceptions}
        \cup {[kind |-> "response", status |-> st, body |-> b] :
                 st \in StatusCodes, b \in Bodies}

(* Specification of the query methods: one call, the behaviour of the       *)
(* request drawn at Init                                                    *)

InitClient ==
    /\ pc = "call"
    /\ op \in QueryMethods
    /\ response \in Responses
    /\ returned = [kind |-> "(not called)"]
    /\ ProcessIdle
    /\ CollectIdle
    /\ DbIdle
    /\ fperr = 0
    /\ NoAqiCall
    /\ NoDominantCall
    /\ CategoryIdle
    /\ KeyIdle

Query ==
    /\ pc = "call"
    /\ op \in QueryMethods
    /\ returned' = query(op, response)
    /\ pc' = "return"
    /\ UNCHANGED <<response, process_vars, collect_vars>>
    /\ UNCHANGED <<db_vars, op, parameter, concentration, fperr, aqi,
                   measurements, all_aqis, dominant_aqi, dominant_parameter,
                   category_vars, key_vars>>

NextClient == Query

SpecClient == InitClient /\ [][NextClient]_vars

-----------------------------------------------------------------------------
(* collect_city_data and collect_multiple_cities                            *)
(* (src/data/data_collector.py)                                             *)
(*                                                                         *)
(* What the API answers for a city is drawn when the city is visited: the   *)
(* processed locations found near it, as their location_id strings, and     *)
(* for each location the number of latest measurements it yields.           *)

\* the largest number of names of a cities argument
MaxCities == 2

\* BrazilianCities.CITIES, in the order of the dictionary (the accents of
\* the names are left out)
CITIES ==
    <<[name |-> "Sao Paulo", priority |-> 1],
      [name |-> "Rio de Janeiro", priority |-> 2],
      [name |-> "Belo Horizonte", priority |-> 3],
      [name |-> "Curitiba", priority |-> 4],
      [name |-> "Brasilia", priority |-> 5],
      [name |-> "Salvador", priority |-> 6],
      [name |-> "Fortaleza", priority |-> 7],
      [name |-> "Porto Alegre", priority |-> 8]>>

\* city in BrazilianCities.CITIES
is_known_city(c) == \E i \in 1..Len(CITIES) : CITIES[i].name = c

RECURSIVE priority_cities_from(_, _)
priority_cities_from(i, max_priority) ==
    IF i > Len(CITIES) THEN <<>>
    ELSE IF CITIES[i].priority <= max_priority
    THEN <<CITIES[i].name>> \o priority_cities_from(i + 1, max_priority)
    ELSE priority_cities_from(i + 1, max_priority)

get_priority_cities(max_priority) == priority_cities_from(1, max_priority)

\* the max_priority of the default cities
DefaultMaxPriority == 4

\* int(s) raises ValueError: s is not a sequence of digits
int_raises(s) ==
    s = <<>> \/ \E i \in 1..Len(s) : \A d \in 1..Len(Digits) : Digits[d] # s[i]

\* the for loop over locations: the measurements collected
RECURSIVE collect_latest(_, _, _)
collect_latest(c, locations, latest) ==
    IF locations = <<>> THEN <<>>
    ELSE LET location_id == Head(locations)
             rest == collect_latest(c, Tail(locations), latest)
         IN  IF int_raises(location_id)
             THEN \* except Exception: continue
                  rest
             ELSE [i \in 1..latest[location_id] |->
                      [location_id |-> location_id, city |-> c]] \o rest

collect_city_data(c, key_configured, locations, latest) ==
    IF ~is_known_city(c) THEN Raise("ValueError")
    ELSE IF ~key_configured
    THEN \* OpenAQClient() raises
         Raise("ValueError")
    ELSE Return([measurements |-> collect_latest(c, locations, latest),
                 locations |-> locations])

\* ([], [])
EmptyPair == [measurements |-> <<>>, locations |-> <<>>]

\* mutant of collect_step: a city that fails gets no entry
collect_step_drops_failed(res, c, outcome) ==
    IF outcome.raised THEN res ELSE dict_set(res, c, outcome.value)

\* the body of the for loop of collect_multiple_cities
collect_step(res, c, outcome) ==
    IF outcome.raised
    THEN \* except Exception: results[city] = ([], [])
         dict_set(res, c, EmptyPair)
    ELSE dict_set(res, c, outcome.value)

(* Inputs *)

Id_7 == <<"7">>
Id_None == <<"N","o","n","e">>

LocationLists == {<<>>, <<Id_7>>, <<Id_None, Id_7>>}
LatestCounts == [{Id_7, Id_None} -> 0..1]

RequestedNames == {"Sao Paulo", "Brasilia", "Atlantis"}

CitiesArguments ==
    {NoneValue} \cup
    {IntValue(names) : names \in UNION {[1..n -> RequestedNames] : n \in 0..MaxCities}}

(* Specification of collect_multiple_cities: the call, one step for each    *)
(* city of the list, the return                                             *)

InitCollect ==
    /\ pc = "call"
    /\ op = "collect_multiple_cities"
    /\ requested \in CitiesArguments
    /\ api_key \in BOOLEAN
    /\ remaining = <<>>
    /\ results = <<>>
    /\ ProcessIdle
    /\ ClientIdle
    /\ DbIdle
    /\ fperr = 0
    /\ NoAqiCall
    /\ NoDominantCall
    /\ CategoryIdle
    /\ KeyIdle

UnchangedByCollect ==
    UNCHANGED <<process_vars, client_vars, db_vars, op, parameter,
                concentration, fperr, aqi, measurements, all_aqis,
                dominant_aqi, dominant_parameter, category_vars, key_vars>>

\* if cities is None: cities = get_priority_cities(max_priority=4)
CollectMultipleCities ==
    /\ pc = "call"
    /\ remaining' = IF requested.none
                    THEN get_priority_cities(DefaultMaxPriority)
                    ELSE requested.val
    /\ pc' = "for"
    /\ UNCHANGED <<requested, api_key, results>>
    /\ UnchangedByCollect

\* one iteration of for city in cities
CollectCity ==
    /\ pc = "for"
    /\ remaining # <<>>
    /\ \E locations \in LocationLists, latest \in LatestCounts :
           results' = collect_step(results, Head(remaining),
                          collect_city_data(Head(remaining), api_key,
                                            locations, latest))
    /\ remaining' = Tail(remaining)
    /\ UNCHANGED <<pc, requested, api_key>>
    /\ UnchangedByCollect

\* return results
ReturnResults ==
    /\ pc = "for"
    /\ remaining = <<>>
    /\ pc' = "return"
    /\ UNCHANGED <<requested, api_key, remaining, results>>
    /\ UnchangedByCollect

NextCollect == CollectMultipleCities \/ CollectCity \/ ReturnResults

SpecCollect == InitCollect /\ [][NextCollect]_vars

-----------------------------------------------------------------------------
(* Properties of calculate_aqi, checked under SpecAqi *)

\* the spellings among Parameters that name one of the six pollutants
SupportedSpellings == CanonicalKeys \cup SpelledKeys

Returned == pc = "return"

\* concentrationLow <= c <= concentrationHigh
Inside(bp, c) == bp.c_low <= c /\ c <= bp.c_high

Covered(t, c) == \E i \in 1..Len(t) : Inside(t[i], c)

\* the first tuple, in table order, that c lies inside
FirstInside(t, c) ==
    t[CHOOSE i \in 1..Len(t) :
          Inside(t[i], c) /\ \A j \in 1..(i - 1) : ~Inside(t[j], c)]

\* the last tuple's concentrationHigh
Ceiling(t) == t[Len(t)].c_high

Abs(x) == IF x < 0 THEN -x ELSE x

\* n is an integer nearest to
\* (indexHigh - indexLow) / (concentrationHigh - concentrationLow)
\*     * (c - concentrationLow) + indexLow
NearestToLine(n, bp, c) ==
    LET den == bp.c_high - bp.c_low
        num == (bp.i_high - bp.i_low) * (c - bp.c_low) + bp.i_low * den
    IN  2 * Abs(n * den - num) <= den

\* C1: for a supported key and a concentration inside some tuple of its
\* table, calculate_aqi returns the linear interpolation on the first such
\* tuple, rounded to a nearest integer.
C1_InterpolatesOnFirstTuple ==
    (Returned /\ parameter \in SupportedSpellings
              /\ Covered(get_breakpoints(parameter), concentration))
    => /\ ~aqi.none
       /\ NearestToLine(aqi.val,
                        FirstInside(get_breakpoints(parameter), concentration),
                        concentration)

\* calculate_aqi(20.0, "pm25") = round(49/23.3 * 7.9 + 51) = 68
C1_Witness ==
    /\ Returned
    /\ parameter = Key_pm25
    /\ concentration = Dec(20, 0)
    /\ aqi = IntValue(68)

\* C2: for a supported key and a non-negative concentration, calculate_aqi
\* returns an integer i with 0 <= i <= 500.
C2_TotalWithinRange ==
    (Returned /\ parameter \in SupportedSpellings /\ concentration >= 0)
    => (~aqi.none /\ 0 <= aqi.val /\ aqi.val <= 500)

\* calculate_aqi(350.5, "pm25") lies in the hazardous range
C2_Witness ==
    /\ Returned
    /\ parameter = Key_pm25
    /\ concentration = Dec(350, 5)
    /\ ~aqi.none /\ 301 <= aqi.val /\ aqi.val <= 500

\* C3: every table covers 0 .. its last concentrationHigh, so calculate_aqi
\* returns 500 by falling through the table only when the concentration is
\* above the last concentrationHigh.
C3_TablesCoverRange ==
    (Returned /\ parameter \in SupportedSpellings /\ concentration >= 0
              /\ ~Covered(get_breakpoints(parameter), concentration))
    => concentration > Ceiling(get_breakpoints(parameter))

\* C4: calculate_aqi(c, "pm25") is non-decreasing in c for c >= 0: no smaller
\* non-negative concentration scores higher than the one just scored.
C4_Pm25Monotone ==
    (Returned /\ parameter = Key_pm25 /\ concentration >= 0)
    => \A c1 \in 0..(concentration - 1) : \A e \in FloatErrors :
           calculate_aqi(c1, Key_pm25, e).val <= aqi.val

\* C5: for a supported key, a concentration above the table's largest
\* concentrationHigh scores exactly 500.
C5_SaturatesAt500 ==
    (Returned /\ parameter \in SupportedSpellings
              /\ concentration > Ceiling(get_breakpoints(parameter)))
    => aqi = IntValue(500)

\* the ozone table ends at index 300, and a reading above it still scores 500
C5_Witness ==
    /\ Returned
    /\ parameter = Key_o3
    /\ concentration = Dec(200, 0) + 1
    /\ aqi = IntValue(500)

\* C6: calculate_aqi returns None exactly when the key is not a spelling of
\* one of the six supported pollutants, whatever the concentration.
C6_NoneIffUnsupported ==
    Returned => (aqi.none <=> parameter \notin SupportedSpellings)

\* calculate_aqi(<negative>, "invalid_param") is None
C6_Witness ==
    /\ Returned
    /\ parameter = Key_invalid
    /\ concentration < 0
    /\ aqi = NoneValue

\* C7: for a supported key, a negative concentration scores exactly 0.
C7_NegativeScoresZero ==
    (Returned /\ parameter \in SupportedSpellings /\ concentration < 0)
    => aqi = IntValue(0)

\* calculate_aqi(-1.0, "pm25") = 0
C7_Witness ==
    /\ Returned
    /\ parameter = Key_pm25
    /\ concentration = -Dec(1, 0)
    /\ aqi = IntValue(0)

\* C8: at a tuple's concentrationLow calculate_aqi returns exactly its
\* indexLow and at its concentrationHigh exactly its indexHigh; so
\* concentration 0 falls into category GOOD and the top edge of the first
\* tuple scores exactly 50.
C8_EdgesExact ==
    (Returned /\ parameter \in SupportedSpellings)
    => LET t == get_breakpoints(parameter)
       IN  /\ \A i \in 1..Len(t) :
                  /\ concentration = t[i].c_low => aqi = IntValue(t[i].i_low)
                  /\ concentration = t[i].c_high => aqi = IntValue(t[i].i_high)
           /\ concentration = 0 =>
                  (~aqi.none /\ get_aqi_category(aqi.val).name = "GOOD")
           /\ concentration = t[1].c_high => aqi = IntValue(50)

\* calculate_aqi(649, "no2") = 200, the top edge of the fourth tuple
C8_Witness ==
    /\ Returned
    /\ parameter = Key_no2
    /\ concentration = Dec(649, 0)
    /\ aqi = IntValue(200)

-----------------------------------------------------------------------------
(* Properties of calculate_dominant_aqi, checked under SpecDominant *)

\* C9: when all_aqis is not empty, dominant_parameter is one of its keys,
\* dominant_aqi is all_aqis[dominant_parameter], and no entry is larger.
C9_DominantIsAMaximalEntry ==
    (Returned /\ DOMAIN all_aqis # {})
    => /\ dominant_parameter \in DOMAIN all_aqis
       /\ dominant_aqi = all_aqis[dominant_parameter]
       /\ \A k \in DOMAIN all_aqis : all_aqis[k] <= dominant_aqi

\* C10: all_aqis holds exactly the items with a recognised key, each mapped
\* to calculate_aqi(concentration, key); an unrecognised key never appears.
C10_AllAqisAreTheRecognisedItems ==
    Returned
    => /\ DOMAIN all_aqis =
              {measurements[i].parameter : i \in
                   {j \in 1..Len(measurements) :
                        measurements[j].parameter \in SupportedSpellings}}
       /\ \A i \in 1..Len(measurements) :
              measurements[i].parameter \in SupportedSpellings
              => IntValue(all_aqis[measurements[i].parameter]) =
                     calculate_aqi(measurements[i].concentration,
                                   measurements[i].parameter, fperr)

\* calculate_dominant_aqi({"pm25": 35.5, "invalid_param": 0.0}) keeps pm25 only
C10_Witness ==
    /\ Returned
    /\ Len(measurements) = 2
    /\ measurements[1] = [parameter |-> Key_pm25, concentration |-> Dec(35, 5)]
    /\ measurements[2].parameter = Key_invalid
    /\ DOMAIN all_aqis = {Key_pm25}
    /\ all_aqis[Key_pm25] = 101

\* C11: for an empty mapping, or one with no recognised key, the result is
\* exactly (0, "unknown", {}).
C11_NoDataResult ==
    (Returned /\ \A i \in 1..Len(measurements) :
                     measurements[i].parameter \notin SupportedSpellings)
    => /\ dominant_aqi = 0
       /\ dominant_parameter = Unknown
       /\ all_aqis = <<>>

\* calculate_dominant_aqi({"invalid_param": 35.5}) = (0, "unknown", {})
C11_Witness ==
    /\ Returned
    /\ measurements = <<[parameter |-> Key_invalid, concentration |-> Dec(35, 5)]>>
    /\ dominant_aqi = 0
    /\ dominant_parameter = Unknown
    /\ all_aqis = <<>>

\* the largest index of all_aqis
MaxIndex(d) == CHOOSE v \in {d[k] : k \in DOMAIN d} : \A k \in DOMAIN d : d[k] <= v

\* the positions of the items that scored the largest index
MaxPositions ==
    {i \in 1..Len(measurements) :
         /\ measurements[i].parameter \in DOMAIN all_aqis
         /\ all_aqis[measurements[i].parameter] = MaxIndex(all_aqis)}

\* C12: when two or more recognised pollutants score the same maximum index,
\* the dominant parameter is the one of them that comes first in the
\* mapping's iteration order.
C12_FirstOfTiedMaximaWins ==
    (Returned /\ DOMAIN all_aqis # {} /\ Cardinality(MaxPositions) >= 2)
    => \E i \in MaxPositions :
           /\ \A j \in MaxPositions : i <= j
           /\ dominant_parameter = measurements[i].parameter

-----------------------------------------------------------------------------
(* Properties of get_aqi_category and get_aqi_description, checked under    *)
(* SpecCategory                                                             *)

CategoryReturned == Returned /\ op = "get_aqi_category"
DescriptionReturned == Returned /\ op = "get_aqi_description"

Categories == {AQICategory[i] : i \in 1..Len(AQICategory)}

\* the six bands in order of severity, as the claims give them
BandNames == <<"GOOD", "MODERATE", "UNHEALTHY_SENSITIVE", "UNHEALTHY",
               "VERY_UNHEALTHY", "HAZARDOUS">>

\* C13: for an index in [0, 500] get_aqi_category returns the one category
\* whose inclusive range contains it; the six ranges are contiguous from 0
\* to 500 without gap or overlap; 50 is GOOD, 51 and 100 are MODERATE, 101
\* is UNHEALTHY_SENSITIVE.
C13_UniqueContainingCategory ==
    (CategoryReturned /\ 0 <= index /\ index <= 500)
    => /\ category \in Categories
       /\ category.aqi_low <= index /\ index <= category.aqi_high
       /\ \A c \in Categories :
              (c.aqi_low <= index /\ index <= c.aqi_high) => c = category
       /\ AQICategory[1].aqi_low = 0
       /\ AQICategory[Len(AQICategory)].aqi_high = 500
       /\ \A i \in 1..(Len(AQICategory) - 1) :
              AQICategory[i].aqi_high + 1 = AQICategory[i + 1].aqi_low
       /\ index = 50 => category.name = "GOOD"
       /\ index \in {51, 100} => category.name = "MODERATE"
       /\ index = 101 => category.name = "UNHEALTHY_SENSITIVE"

\* get_aqi_category(51) is MODERATE
C13_Witness ==
    /\ CategoryReturned
    /\ index = 51
    /\ category.name = "MODERATE"

\* C14: get_aqi_category returns one of the six categories for every
\* integer, and HAZARDOUS for every index above 500.
C14_TotalAndHazardousAbove500 ==
    CategoryReturned
    => /\ category \in Categories
       /\ \E i \in 1..Len(BandNames) : category.name = BandNames[i]
       /\ index > 500 => category.name = "HAZARDOUS"

\* get_aqi_category(501) is HAZARDOUS
C14_Witness ==
    /\ CategoryReturned
    /\ index = 501
    /\ category.name = "HAZARDOUS"

\* the health sentence of each category
HealthSentence(level) ==
    CASE level = "GOOD" ->
             "Air quality is satisfactory, and air pollution poses little or no risk."
      [] level = "MODERATE" ->
             "Air quality is acceptable. However, there may be a risk for some people who are unusually sensitive to air pollution."
      [] level = "UNHEALTHY_SENSITIVE" ->
             "Members of sensitive groups may experience health effects. The general public is less likely to be affected."
      [] level = "UNHEALTHY" ->
             "Some members of the general public may experience health effects; members of sensitive groups may experience more serious health effects."
      [] level = "VERY_UNHEALTHY" ->
             "Health alert: The risk of health effects is increased for everyone."
      [] level = "HAZARDOUS" ->
             "Health warning of emergency conditions: everyone is more likely to be affected."

\* C15: get_aqi_description returns the index unchanged, the label, colour
\* and enum name of get_aqi_category(index), and that category's fixed
\* health sentence, never "No information available".
C15_DescriptionBundle ==
    DescriptionReturned
    => /\ description.aqi = index
       /\ description.category = get_aqi_category(index).label
       /\ description.color = get_aqi_category(index).color
       /\ description.level = get_aqi_category(index).name
       /\ \E i \in 1..Len(BandNames) : description.level = BandNames[i]
       /\ description.health_message = HealthSentence(description.level)
       /\ description.health_message # "No information available"
       /\ description.health_message # ""

\* get_aqi_description(350) is the hazardous bundle
C15_Witness ==
    /\ DescriptionReturned
    /\ index = 350
    /\ description.level = "HAZARDOUS"
    /\ description.category = "Hazardous"
    /\ description.color = "#7E0023"
    /\ description.health_message =
           "Health warning of emergency conditions: everyone is more likely to be affected."

-----------------------------------------------------------------------------
(* Properties of get_breakpoints and format_parameter_name, checked under   *)
(* SpecKeys                                                                 *)

BreakpointsReturned == Returned /\ op = "get_breakpoints"
DisplayReturned == Returned /\ op = "format_parameter_name"

\* a and b are the same letter in any case, or the same character
SameCharIgnoringCase(a, b) ==
    \/ a = b
    \/ \E i \in 1..Len(LowerLetters) :
           {a, b} = {LowerLetters[i], UpperLetters[i]}

SameIgnoringCase(s, t) ==
    /\ Len(s) = Len(t)
    /\ \A i \in 1..Len(s) : SameCharIgnoringCase(s[i], t[i])

IsPunctuation(ch) == ch \in {".", "_"}
NotPunctuation(ch) == ~IsPunctuation(ch)

\* p spells k: equal to k, case ignored, once every "." and "_" is removed
Spells(p, k) == SameIgnoringCase(SelectSeq(p, NotPunctuation), k)

\* the table of each of the six pollutants
TableOf(k) ==
    CASE k = Key_pm25 -> PM25_BREAKPOINTS
      [] k = Key_pm10 -> PM10_BREAKPOINTS
      [] k = Key_o3   -> O3_BREAKPOINTS
      [] k = Key_co   -> CO_BREAKPOINTS
      [] k = Key_no2  -> NO2_BREAKPOINTS
      [] k = Key_so2  -> SO2_BREAKPOINTS

\* C16: get_breakpoints returns a pollutant's table exactly when the key,
\* case ignored and every "." and "_" removed, is that pollutant's key, and
\* None when it is none of the six.
C16_LookupIgnoresCaseAndPunctuation ==
    BreakpointsReturned
    => /\ \A k \in CanonicalKeys :
              Spells(key, k) => found = [none |-> FALSE, table |-> TableOf(k)]
       /\ (\A k \in CanonicalKeys : ~Spells(key, k)) => found.none

\* get_breakpoints("P.M_1.0") is the PM10 table
C16_Witness ==
    /\ BreakpointsReturned
    /\ key = Key_P_M_1_0
    /\ found = [none |-> FALSE, table |-> PM10_BREAKPOINTS]

\* within each tuple low < high for concentration and index, and each
\* tuple's concentrationHigh is below the next tuple's concentrationLow
WellFormed(t) ==
    /\ \A i \in 1..Len(t) :
           t[i].c_low < t[i].c_high /\ t[i].i_low < t[i].i_high
    /\ \A i \in 1..(Len(t) - 1) :
           /\ t[i].c_low < t[i + 1].c_low
           /\ t[i].c_high < t[i + 1].c_low

\* C17: each of the six tables is well-formed: tuples with low < high,
\* sorted ascending and non-overlapping.
C17_TablesWellFormed ==
    (BreakpointsReturned /\ ~found.none) => WellFormed(found.table)

\* the CO table, returned for "C.O", has six tuples, the second above the first
C17_Witness ==
    /\ BreakpointsReturned
    /\ key = <<"C", ".", "O">>
    /\ Len(found.table) = 6
    /\ found.table[1].c_high < found.table[2].c_low

\* the display label of each entry of the static table
LabelOf(k) ==
    CASE k = Key_pm25  -> <<"P","M","2",".","5">>
      [] k = Key_pm2_5 -> <<"P","M","2",".","5">>
      [] k = Key_pm10  -> <<"P","M","1","0">>
      [] k = Key_o3    -> <<"O", Sub3>>
      [] k = Key_ozone -> <<"O", Sub3>>
      [] k = Key_co    -> <<"C","O">>
      [] k = Key_no2   -> <<"N","O", Sub2>>
      [] k = Key_so2   -> <<"S","O", Sub2>>

FormatKeys == {Key_pm25, Key_pm2_5, Key_pm10, Key_o3, Key_ozone, Key_co,
               Key_no2, Key_so2}

\* t is s with every lower-case letter replaced by its upper-case letter
IsUpperCased(t, s) ==
    /\ Len(t) = Len(s)
    /\ \A i \in 1..Len(s) :
           /\ SameCharIgnoringCase(t[i], s[i])
           /\ \A j \in 1..Len(LowerLetters) : t[i] # LowerLetters[j]

\* C18: format_parameter_name always returns a string; a key that is, case
\* ignored, an entry of the static table gets that entry's label, and every
\* other key is returned upper-cased.
C18_LabelOrUpperCase ==
    DisplayReturned
    => /\ display # NoDisplay
       /\ \A k \in FormatKeys : SameIgnoringCase(key, k) => display = LabelOf(k)
       /\ (\A k \in FormatKeys : ~SameIgnoringCase(key, k))
              => IsUpperCased(display, key)

\* format_parameter_name("Pm25") is "PM2.5"
C18_Witness ==
    /\ DisplayReturned
    /\ key = Key_Pm25
    /\ display = <<"P","M","2",".","5">>

-----------------------------------------------------------------------------
(* Properties of insert_measurements_bulk, checked under SpecDb *)

\* C20: the number insert_measurements_bulk returns is the number of rows
\* the call has added to air_measurements, for every batch, one whose
\* processing fails part-way through included.
C20_BulkCountEqualsPersisted ==
    [][InsertMeasurementsBulk =>
          inserted' = Len(air_measurements') - Len(air_measurements)]_vars

\* the measurement has every required key and no None among them
Storable(m) == ~raises_KeyError(m) /\ ~raises_IntegrityError(m)

\* the measurement is identical to one already stored
AlreadyStored(m, table) ==
    Storable(m) /\ \E i \in 1..Len(table) : table[i] = inserted_row(m)

\* C21: duplicate measurements are skipped.  air_measurements never holds
\* two identical measurements; insert_measurement of a measurement already
\* stored adds no row and returns False; insert_measurements_bulk of a
\* batch of measurements already stored adds no row and counts none.
C21_DuplicatesSkipped ==
    /\ [](\A i, j \in 1..Len(air_measurements) :
             air_measurements[i] = air_measurements[j] => i = j)
    /\ [][(InsertMeasurement /\ AlreadyStored(measurement', air_measurements))
             => (air_measurements' = air_measurements /\ result' = FALSE)]_vars
    /\ [][(InsertMeasurementsBulk
             /\ \A i \in 1..Len(batch') : AlreadyStored(batch'[i], air_measurements))
             => (air_measurements' = air_measurements /\ inserted' = 0)]_vars

-----------------------------------------------------------------------------
(* Properties of process_locations, checked under SpecProcess *)

ProcessReturned == op = "process_locations" /\ pc = "return"

\* the raw item holds a value, not None, under the key
HasField(item, k) == k \in DOMAIN item /\ ~item[k].none

HasIdAndName(item) == HasField(item, "id") /\ HasField(item, "name")

\* C22: every location of the output was built from a raw item that has
\* both an id and a name (it carries that item's id and name), and there
\* are no more locations than such items: an item lacking one is skipped.
C22_OutputHasIdAndName ==
    ProcessReturned =>
        /\ \A j \in 1..Len(processed) :
               \E i \in 1..Len(raw_data) :
                   /\ HasIdAndName(raw_data[i])
                   /\ processed[j].location_id = str(raw_data[i]["id"])
                   /\ processed[j].station_name = raw_data[i]["name"]
        /\ Len(processed) <=
               Cardinality({i \in 1..Len(raw_data) : HasIdAndName(raw_data[i])})

-----------------------------------------------------------------------------
(* Properties of the OpenAQClient query methods, checked under SpecClient *)

QueryReturned == op \in QueryMethods /\ pc = "return"

\* the request times out, fails to connect, answers with an HTTP error
\* status, or answers with a JSON body without "results"
RequestFails ==
    \/ response.kind \in {"Timeout", "ConnectionError"}
    \/ /\ response.kind = "response"
       /\ \/ response.status >= 400
          \/ /\ response.body.type \in {"dict", "list", "str"}
             /\ ~results_in(response.body)

-----------------------------------------------------------------------------
(* Properties of collect_multiple_cities, checked under SpecCollect *)

CollectReturned == op = "collect_multiple_cities" /\ pc = "return"

\* the names requested: those of the argument, the default cities for None
RequestedCities ==
    IF requested.none
    THEN {CITIES[i].name : i \in {j \in 1..Len(CITIES) : CITIES[j].priority <= 4}}
    ELSE {requested.val[i] : i \in 1..Len(requested.val)}

\* collect_city_data raises for the city: it is unknown or the API key is
\* missing
CollectionRaises(c) == ~is_known_city(c) \/ ~api_key

\* C24: the mapping returned has exactly the requested names as its keys,
\* the ones after a failing city included, and a city whose collection
\* raises maps to ([], []).
C24_OneEntryPerCity ==
    CollectReturned =>
        /\ DOMAIN results = RequestedCities
        /\ \A c \in RequestedCities :
               CollectionRaises(c) => results[c] = EmptyPair

\* an unknown city was followed by a known one, which was collected
C24_Witness ==
    /\ CollectReturned
    /\ ~requested.none
    /\ requested.val = <<"Atlantis", "Sao Paulo">>
    /\ api_key
    /\ results["Atlantis"] = EmptyPair
    /\ results["Sao Paulo"].locations # <<>>

-----------------------------------------------------------------------------
(* Properties of insert_city, checked under SpecCities *)

\* the rows of the table as a set
RowSet(table) == {table[i] : i \in 1..Len(table)}

\* the city data can be stored: it has a location_id and a city
StorableCity(cd) == HasField(cd, "location_id") /\ HasField(cd, "city")

\* C25: cities holds at most one row for a location_id.  A successful
\* insert_city leaves for its location_id the row of the data inserted and
\* the rows of the other locations as they were; a failed one changes
\* nothing; storable data is inserted successfully; and inserting the data
\* of the previous successful call again leaves the same set of rows.
C25_InsertOrReplace ==
    /\ [](\A i, j \in 1..Len(cities) :
             cities[i].location_id = cities[j].location_id => i = j)
    /\ [][InsertCity =>
           /\ result' = StorableCity(city_data')
           /\ result' =>
                 RowSet(cities') =
                     {r \in RowSet(cities) :
                          r.location_id # city_data'["location_id"].val}
                     \cup {[location_id  |-> city_data'["location_id"].val,
                            city_name    |-> city_data'["city"].val,
                            station_name |-> IF "station_name" \in DOMAIN city_data'
                                             THEN city_data'["station_name"]
                                             ELSE NoneValue]}
           /\ ~result' => cities' = cities
           /\ (result /\ result' /\ op = "insert_city" /\ city_data' = city_data)
                 => RowSet(cities') = RowSet(cities)]_vars

\* a city was inserted for a location_id that had a row with other data
C25_Witness ==
    /\ op = "insert_city"
    /\ result
    /\ Len(cities) = 2
    /\ cities[2].location_id = "loc-1"
    /\ cities[2].city_name = "Porto"
    /\ cities[1].location_id = "loc-2"

-----------------------------------------------------------------------------
(* Properties of the alert operations, checked under SpecAlerts *)

\* get_active_alerts has returned a row with the id
ReturnedAlert(i) == \E a \in active_alerts : a.id = i

\* the city asked for is the alert's, or all cities are asked for
AskedFor(i) == city.none \/ city.val = alerts[i].city_name

\* C26: a successful create_alert adds an active alert; the active status
\* of an alert changes only when resolve_alert is called with its id, and
\* then to resolved for good; resolve_alert with an id resolves that alert;
\* get_active_alerts returns every active alert of the city asked for (of
\* every city when none is given) and never a resolved one.
C26_ActiveUntilResolved ==
    /\ [][(CreateAlert /\ result') =>
             /\ Len(alerts') = Len(alerts) + 1
             /\ alerts'[Len(alerts')].is_active = 1
             /\ alerts'[Len(alerts')].city_name = alert'.city.val]_vars
    /\ [][/\ Len(alerts') >= Len(alerts)
          /\ \A i \in 1..Len(alerts) :
                /\ alerts'[i].city_name = alerts[i].city_name
                /\ alerts'[i].is_active # alerts[i].is_active =>
                      /\ op' = "resolve_alert"
                      /\ alert_id' = i
                      /\ alerts'[i].is_active = 0]_vars
    /\ [][(ResolveAlert /\ alert_id' \in 1..Len(alerts)) =>
             alerts'[alert_id'].is_active = 0]_vars
    /\ [](op = "get_active_alerts" =>
             \A i \in 1..Len(alerts) :
                 /\ (alerts[i].is_active = 1 /\ AskedFor(i)) => ReturnedAlert(i)
                 /\ alerts[i].is_active = 0 => ~ReturnedAlert(i))

\* of two alerts of a city the first is resolved, and get_active_alerts
\* for the city has returned the second alone
C26_Witness ==
    /\ op = "get_active_alerts"
    /\ Len(alerts) = 2
    /\ alerts[1].is_active = 0
    /\ alerts[2].is_active = 1
    /\ alerts[1].city_name = "Rio"
    /\ alerts[2].city_name = "Rio"
    /\ ~city.none
    /\ city.val = "Rio"
    /\ active_alerts = {[id |-> 2, city_name |-> "Rio", is_active |-> 1]}

-----------------------------------------------------------------------------
(* Scoring and classification together, checked under SpecAqi *)

\* the category's range contains the tuple's index range
ContainsIndexRange(cat, bp) == cat.aqi_low <= bp.i_low /\ bp.i_high <= cat.aqi_high

\* C27: for a supported key and a concentration inside a tuple of its
\* table, the index calculate_aqi returns lies between the tuple's indexLow
\* and indexHigh, and get_aqi_category of that index is a category whose
\* range contains the tuple's index range.
C27_ScoreAgreesWithCategory ==
    (Returned /\ parameter \in SupportedSpellings) =>
        \A k \in 1..Len(get_breakpoints(parameter)) :
            Inside(get_breakpoints(parameter)[k], concentration) =>
                /\ ~aqi.none
                /\ get_breakpoints(parameter)[k].i_low <= aqi.val
                /\ aqi.val <= get_breakpoints(parameter)[k].i_high
                /\ ContainsIndexRange(get_aqi_category(aqi.val),
                                      get_breakpoints(parameter)[k])

\* calculate_aqi(55.4, "pm25") = 150, the last index of the tuple
\* (35.5, 55.4, 101, 150), classified UNHEALTHY_SENSITIVE
C27_Witness ==
    /\ Returned
    /\ parameter = Key_pm25
    /\ concentration = Dec(55, 4)
    /\ aqi = IntValue(150)
    /\ get_aqi_category(aqi.val).name = "UNHEALTHY_SENSITIVE"

-----------------------------------------------------------------------------
(* Severity order of the categories, checked under SpecCategory *)

\* the rank of a category in GOOD < MODERATE < UNHEALTHY_SENSITIVE <
\* UNHEALTHY < VERY_UNHEALTHY < HAZARDOUS
SeverityRank(cat) == CHOOSE n \in 1..Len(BandNames) : BandNames[n] = cat.name

\* C28: the severity of the category is monotone in the index over all
\* integers: no index below the one classified, negative ones included,
\* gets a more severe category.
C28_SeverityMonotone ==
    CategoryReturned =>
        \A a \in Indices :
            a <= index =>
                SeverityRank(get_aqi_category(a)) <= SeverityRank(category)

-----------------------------------------------------------------------------
(* Scoring keys and display keys together, checked under SpecKeys *)

\* C29: for every key that get_breakpoints recognises as one of the six
\* pollutants, in any case and with "." or "_" characters,
\* format_parameter_name returns that pollutant's display label, the one it
\* returns for the canonical key.
C29_RecognisedKeysGetTheirLabel ==
    DisplayReturned =>
        \A k \in CanonicalKeys :
            get_breakpoints(key) = TableOf(k) =>
                /\ display = LabelOf(k)
                /\ display = format_parameter_name(k)

====
